---------------------------- MODULE Spec2Model ----------------------------
(***************************************************************************)
(* Model of payments.py: the monthly payment formula calc_mon_pay, the     *)
(* schedule loop calc_schedule and the summary pass of main.               *)
(*                                                                         *)
(* Python floats are modelled as exact rationals [n |-> numerator,         *)
(* d |-> denominator] in lowest terms with d > 0, so the rounding of IEEE  *)
(* doubles is abstracted away; every arithmetic operation of the source is *)
(* translated by the corresponding rational operation, and a division by   *)
(* zero raises ZeroDivisionError as Python's float division does.  A local *)
(* variable that has not been assigned yet holds NoVal.                    *)
(***************************************************************************)
EXTENDS Integers, Sequences, FiniteSets, TLC

(***************************************************************************)
(* Bounds on the inputs.                                                   *)
(***************************************************************************)
MaxPrin == 2
MaxMonths == 3
MaxYears == 1
MaxHoa == 1

(***************************************************************************)
(* Rational arithmetic standing for Python's float arithmetic.             *)
(***************************************************************************)
Abs(x) == IF x < 0 THEN -x ELSE x

RECURSIVE GCD(_, _)
GCD(a, b) == IF b = 0 THEN a ELSE GCD(b, a % b)

Rat(n, d) ==
    LET g == GCD(Abs(n), Abs(d))
        s == IF d < 0 THEN -1 ELSE 1
    IN  [n |-> s * (n \div g), d |-> s * (d \div g)]

FromInt(i) == [n |-> i, d |-> 1]

Zero == FromInt(0)

One == FromInt(1)

NoVal == [n |-> 0, d |-> 0]

Neg(a) == [n |-> -a.n, d |-> a.d]

Add(a, b) ==
    IF a.n = 0 THEN b
    ELSE IF b.n = 0 THEN a
    ELSE LET g == GCD(a.d, b.d)
         IN  Rat(a.n * (b.d \div g) + b.n * (a.d \div g), (a.d \div g) * b.d)

Sub(a, b) == Add(a, Neg(b))

(* the factors are in lowest terms, so cancelling across them leaves the  *)
(* product in lowest terms                                                *)
Mul(a, b) ==
    IF a.n = 0 \/ b.n = 0 THEN Zero
    ELSE LET g1 == GCD(Abs(a.n), b.d)
             g2 == GCD(Abs(b.n), a.d)
         IN  [n |-> (a.n \div g1) * (b.n \div g2),
              d |-> (a.d \div g2) * (b.d \div g1)]

Inv(a) == IF a.n < 0 THEN [n |-> -a.d, d |-> -a.n] ELSE [n |-> a.d, d |-> a.n]

Div(a, b) == Mul(a, Inv(b))

IsZero(a) == a.n = 0

Leq(a, b) == Sub(a, b).n <= 0

Less(a, b) == Sub(a, b).n < 0

(* q ** e for e >= 0, by squaring: the recursion is logarithmic in e *)
RECURSIVE PowNat(_, _)
PowNat(q, e) ==
    IF e = 0 THEN One
    ELSE LET h == PowNat(q, e \div 2)
         IN  IF e % 2 = 0 THEN Mul(h, h) ELSE Mul(q, Mul(h, h))

(* q ** e for an integer exponent e, with q # 0 whenever e < 0 *)
Pow(q, e) == IF e >= 0 THEN PowNat(q, e) ELSE Inv(PowNat(q, -e))

(* the sum of s[lo .. hi]; exact addition is associative, so the halves   *)
(* are summed separately to keep the recursion logarithmic                *)
RECURSIVE SumRange(_, _, _)
SumRange(s, lo, hi) ==
    IF lo > hi THEN Zero
    ELSE IF lo = hi THEN s[lo]
    ELSE LET mid == (lo + hi) \div 2
         IN  Add(SumRange(s, lo, mid), SumRange(s, mid + 1, hi))

(* sum(s) *)
Sum(s) == SumRange(s, 1, Len(s))

(***************************************************************************)
(* calc_mon_pay(out_prin, months, int_rate): the outcome of the call, exc  *)
(* being the exception raised ("none" when the call returns the list       *)
(* [payment, interest, principal]).                                        *)
(***************************************************************************)
Raised(e) == [exc |-> e, payment |-> NoVal, interest |-> NoVal, principal |-> NoVal]

MonthlyRate(int_rate_) == Div(int_rate_, FromInt(12 * 100))

calc_mon_pay(out_prin_, months_, int_rate_) ==
    LET r == MonthlyRate(int_rate_)
        q == Add(One, r)
    IN  IF IsZero(q) /\ months_ > 0
        THEN Raised("ZeroDivisionError")
        ELSE LET den == Sub(One, Pow(q, -months_))
             IN  IF IsZero(den)
                 THEN Raised("ZeroDivisionError")
                 ELSE LET payment == Div(Mul(out_prin_, r), den)
                          interest == Mul(r, out_prin_)
                      IN  [exc |-> "none",
                           payment |-> payment,
                           interest |-> interest,
                           principal |-> Sub(payment, interest)]

(***************************************************************************)
(* Python list operations used by main.                                    *)
(***************************************************************************)
Min(a, b) == IF a <= b THEN a ELSE b

(* s[i] with a 0-based index i >= 0: IndexError past the end of the list *)
Index(s, i) ==
    IF i < Len(s) THEN [exc |-> "none", val |-> s[i + 1]]
                  ELSE [exc |-> "IndexError", val |-> NoVal]

(* s[0:hi]: a slice stops silently at the end of the list *)
Slice(s, hi) == SubSeq(s, 1, Min(hi, Len(s)))

(* a / b on floats *)
TrueDiv(a, b) ==
    IF IsZero(b) THEN [exc |-> "ZeroDivisionError", val |-> NoVal]
                 ELSE [exc |-> "none", val |-> Div(a, b)]

SevenYears == 7 * 12

(***************************************************************************)
(* State.  entry is the function called from outside, pc the position of   *)
(* control, exc the exception that ended the call ("none" if none did).    *)
(* The other variables are the parameters and locals of the three          *)
(* functions under their source names; calls logs the arguments of every   *)
(* call of calc_mon_pay made by calc_schedule, and ret is the outcome of   *)
(* the latest call of calc_mon_pay.                                        *)
(***************************************************************************)
VARIABLES entry, pc, exc,
          out_prin, months, int_rate, ret,
          loan_amt, years, calls,
          pay_h, int_h, prin_h, month_h, out_prin_h,
          home_val, down_pct, mon_hoa,
          down_pay, mon_prop_tax, mon_home_ins,
          mon_pay, tot_int, tot_prop_tax, tot_home_ins, tot_hoa, tot_pay,
          int_loan_rat, int_7yr, int_7yr_tot_rat, out_prin_7yr, written

ctl == <<entry, pc, exc>>

hist == <<pay_h, int_h, prin_h, month_h, out_prin_h>>

inputs == <<home_val, down_pct, mon_hoa>>

derived == <<down_pay, mon_prop_tax, mon_home_ins>>

totals == <<tot_int, tot_prop_tax, tot_home_ins, tot_hoa, tot_pay>>

window == <<int_7yr, int_7yr_tot_rat, out_prin_7yr, written>>

vars == <<ctl, out_prin, months, int_rate, ret, loan_amt, years, calls, hist,
          inputs, derived, mon_pay, totals, int_loan_rat, window>>

(***************************************************************************)
(* Input sets.  The amounts and rates are chosen so that every            *)
(* intermediate value of the rational arithmetic fits the model checker's  *)
(* 32-bit integers: a yearly rate of 1200 % is a monthly factor of 2, and  *)
(* -600 % is a monthly factor of 1/2.  main is run for terms of at most    *)
(* one year, on a home of 9600 with 57.34375 % down (a loan of 4095) or    *)
(* 100 % down (no loan); the percentage int_loan_rat of a longer term does *)
(* not fit.                                                                *)
(***************************************************************************)
PrinSet == {FromInt(i) : i \in -1 .. MaxPrin}

MonthsSet == -1 .. MaxMonths

PayRates == {FromInt(-600), Zero, FromInt(600), FromInt(1200)}

SchedRates == {FromInt(-600), Zero, FromInt(1200)}

YearsSet == -1 .. MaxYears

MainYearsSet == {-1, 0, 1}

HomeVals == {Rat(-6, 625), Zero, Rat(6, 625)}

DownPcts == {Rat(1835, 32), FromInt(100)}

HoaSet == 0 .. MaxHoa

NoRet == Raised("none")

(* the locals of calc_schedule and main before they are assigned *)
Unassigned ==
    /\ exc = "none"
    /\ ret = NoRet
    /\ calls = <<>>
    /\ pay_h = <<>> /\ int_h = <<>> /\ prin_h = <<>>
    /\ month_h = <<>> /\ out_prin_h = <<>>
    /\ down_pay = NoVal /\ mon_prop_tax = NoVal /\ mon_home_ins = NoVal
    /\ mon_pay = NoVal
    /\ tot_int = NoVal /\ tot_prop_tax = NoVal /\ tot_home_ins = NoVal
    /\ tot_hoa = NoVal /\ tot_pay = NoVal
    /\ int_loan_rat = NoVal
    /\ int_7yr = NoVal /\ int_7yr_tot_rat = NoVal /\ out_prin_7yr = NoVal
    /\ written = FALSE

(* a direct call calc_mon_pay(out_prin, months, int_rate) *)
InitMonPay ==
    /\ entry = "calc_mon_pay" /\ pc = "pay"
    /\ out_prin \in PrinSet /\ months \in MonthsSet /\ int_rate \in PayRates
    /\ loan_amt = NoVal /\ years = 0
    /\ home_val = NoVal /\ down_pct = NoVal /\ mon_hoa = 0
    /\ Unassigned

(* a direct call calc_schedule(loan_amt, years, int_rate) *)
InitSchedule ==
    /\ entry = "calc_schedule" /\ pc = "call"
    /\ loan_amt \in PrinSet /\ years \in YearsSet /\ int_rate \in SchedRates
    /\ out_prin = NoVal /\ months = 0
    /\ home_val = NoVal /\ down_pct = NoVal /\ mon_hoa = 0
    /\ Unassigned

(* main(), with the values typed at its prompts *)
InitMain ==
    /\ entry = "main" /\ pc = "main"
    /\ home_val \in HomeVals /\ down_pct \in DownPcts
    /\ years \in MainYearsSet /\ int_rate \in SchedRates /\ mon_hoa \in HoaSet
    /\ loan_amt = NoVal /\ out_prin = NoVal /\ months = 0
    /\ Unassigned

Init == InitMonPay \/ InitSchedule \/ InitMain

(***************************************************************************)
(* calc_mon_pay called directly.                                           *)
(***************************************************************************)
MonPay ==
    /\ pc = "pay"
    /\ ret' = calc_mon_pay(out_prin, months, int_rate)
    /\ exc' = ret'.exc
    /\ pc' = IF ret'.exc = "none" THEN "done" ELSE "raised"
    /\ UNCHANGED <<entry, out_prin, months, int_rate, loan_amt, years, calls,
                   hist, inputs, derived, mon_pay, totals, int_loan_rat, window>>

(***************************************************************************)
(* calc_schedule.                                                          *)
(***************************************************************************)
(* a slip: the remaining months counted without the current one *)
Remaining_offbyone(years_, p) == years_ * 12 - p

(* the months argument of the call in the iteration for period p *)
Remaining(years_, p) == years_ * 12 - p + 1

(* a slip: the whole payment taken off the balance *)
NextBalance_payment(out_prin_, r) == Sub(out_prin_, r.payment)

(* a slip: the principal added to the balance *)
NextBalance_plus(out_prin_, r) == Add(out_prin_, r.principal)

(* out_prin = out_prin - principal *)
NextBalance(out_prin_, r) == Sub(out_prin_, r.principal)

(* a slip: the loop left as soon as the balance is below the loan amount *)
PaidOff_belowloan(out_prin_) == Less(out_prin_, loan_amt)

(* a slip: the break left out *)
PaidOff_never(out_prin_) == FALSE

(* if out_prin <= 0: break *)
PaidOff(out_prin_) == Leq(out_prin_, Zero)

(* where control goes when calc_schedule returns *)
AfterSchedule == IF entry = "main" THEN "mon_pay" ELSE "done"

(* the empty history lists and out_prin = loan_amt *)
ScheduleStart ==
    /\ pc = "call"
    /\ pay_h' = <<>> /\ int_h' = <<>> /\ prin_h' = <<>>
    /\ month_h' = <<>> /\ out_prin_h' = <<>>
    /\ out_prin' = loan_amt
    /\ pc' = "loop"
    /\ UNCHANGED <<entry, exc, months, int_rate, ret, loan_amt, years, calls,
                   inputs, derived, mon_pay, totals, int_loan_rat, window>>

(* one iteration of the for loop; months = 0 stands for the loop variable *)
(* before the first iteration                                             *)
ScheduleIter ==
    /\ pc = "loop"
    /\ months < years * 12
    /\ months' = months + 1
    /\ calls' = Append(calls, [out_prin |-> out_prin,
                               months |-> Remaining(years, months')])
    /\ ret' = calc_mon_pay(out_prin, Remaining(years, months'), int_rate)
    /\ IF ret'.exc # "none"
       THEN /\ exc' = ret'.exc
            /\ pc' = "raised"
            /\ UNCHANGED <<out_prin, hist>>
       ELSE /\ out_prin' = NextBalance(out_prin, ret')
            /\ pay_h' = Append(pay_h, ret'.payment)
            /\ int_h' = Append(int_h, ret'.interest)
            /\ prin_h' = Append(prin_h, ret'.principal)
            /\ month_h' = Append(month_h, months')
            /\ out_prin_h' = Append(out_prin_h, out_prin')
            /\ pc' = IF PaidOff(out_prin') THEN AfterSchedule ELSE "loop"
            /\ exc' = exc
    /\ UNCHANGED <<entry, int_rate, loan_amt, years,
                   inputs, derived, mon_pay, totals, int_loan_rat, window>>

(* the range of the for loop is exhausted *)
ScheduleReturn ==
    /\ pc = "loop"
    /\ months >= years * 12
    /\ pc' = AfterSchedule
    /\ UNCHANGED <<entry, exc, out_prin, months, int_rate, ret, loan_amt, years,
                   calls, hist, inputs, derived, mon_pay, totals, int_loan_rat,
                   window>>

(***************************************************************************)
(* main.                                                                   *)
(***************************************************************************)
prop_tax == Rat(5, 4)

(* mon_pay = pay_h[0] + mon_hoa + mon_home_ins + mon_prop_tax *)
MonPayTotal(payment, mon_hoa_, mon_home_ins_, mon_prop_tax_) ==
    Add(Add(Add(payment, FromInt(mon_hoa_)), mon_home_ins_), mon_prop_tax_)

(* a slip: the down payment left out of the total *)
TotPay_nodown(down_pay_, years_, mon_pay_) == Mul(FromInt(years_ * 12), mon_pay_)

(* tot_pay = down_pay + years*12*mon_pay *)
TotPay(down_pay_, years_, mon_pay_) ==
    Add(down_pay_, Mul(FromInt(years_ * 12), mon_pay_))

(* int_7yr = sum(int_h[0:7*12]) *)
WindowInterest(int_h_) == Sum(Slice(int_h_, SevenYears))

(* a slip: the index clamped to the last period *)
WindowBalance_clamped(out_prin_h_) ==
    Index(out_prin_h_, Min(SevenYears, Len(out_prin_h_)) - 1)

(* out_prin_h[7*12-1] *)
WindowBalance(out_prin_h_) == Index(out_prin_h_, SevenYears - 1)

(* the prompts are answered: home value in dollars, down payment, loan    *)
(* amount, monthly property tax and home insurance                        *)
MainInputs ==
    /\ pc = "main"
    /\ home_val' = Mul(home_val, FromInt(1000000))
    /\ down_pay' = Div(Mul(home_val', down_pct), FromInt(100))
    /\ loan_amt' = Sub(home_val', down_pay')
    /\ mon_prop_tax' = Div(Div(Mul(home_val', prop_tax), FromInt(100)), FromInt(12))
    /\ mon_home_ins' = Div(Div(Div(Mul(home_val', prop_tax), FromInt(100)),
                               FromInt(10)), FromInt(12))
    /\ pc' = "call"
    /\ UNCHANGED <<entry, exc, out_prin, months, int_rate, ret, years, calls, hist,
                   down_pct, mon_hoa, mon_pay, totals, int_loan_rat, window>>

(* total monthly payment, from the first period's payment *)
MainMonPay ==
    /\ pc = "mon_pay"
    /\ LET first == Index(pay_h, 0)
       IN  IF first.exc # "none"
           THEN /\ exc' = first.exc
                /\ pc' = "raised"
                /\ UNCHANGED mon_pay
           ELSE /\ mon_pay' = MonPayTotal(first.val, mon_hoa, mon_home_ins,
                                          mon_prop_tax)
                /\ pc' = "totals"
                /\ UNCHANGED exc
    /\ UNCHANGED <<entry, out_prin, months, int_rate, ret, loan_amt, years, calls,
                   hist, inputs, derived, totals, int_loan_rat, window>>

(* totals over the life of the loan *)
MainTotals ==
    /\ pc = "totals"
    /\ tot_int' = Sum(int_h)
    /\ tot_prop_tax' = Mul(Mul(mon_prop_tax, FromInt(12)), FromInt(years))
    /\ tot_home_ins' = Mul(Mul(mon_home_ins, FromInt(12)), FromInt(years))
    /\ tot_hoa' = FromInt(mon_hoa * 12 * years)
    /\ tot_pay' = TotPay(down_pay, years, mon_pay)
    /\ pc' = "int_loan_rat"
    /\ UNCHANGED <<entry, exc, out_prin, months, int_rate, ret, loan_amt, years,
                   calls, hist, inputs, derived, mon_pay, int_loan_rat, window>>

(* int_loan_rat = tot_int/loan_amt*100 *)
MainIntLoanRat ==
    /\ pc = "int_loan_rat"
    /\ LET quot == TrueDiv(tot_int, loan_amt)
       IN  IF quot.exc # "none"
           THEN /\ exc' = quot.exc
                /\ pc' = "raised"
                /\ UNCHANGED int_loan_rat
           ELSE /\ int_loan_rat' = Mul(quot.val, FromInt(100))
                /\ pc' = "int_7yr"
                /\ UNCHANGED exc
    /\ UNCHANGED <<entry, out_prin, months, int_rate, ret, loan_amt, years, calls,
                   hist, inputs, derived, mon_pay, totals, window>>

(* interest paid over the first 7 years *)
MainInt7yr ==
    /\ pc = "int_7yr"
    /\ int_7yr' = WindowInterest(int_h)
    /\ pc' = "int_7yr_tot_rat"
    /\ UNCHANGED <<entry, exc, out_prin, months, int_rate, ret, loan_amt, years,
                   calls, hist, inputs, derived, mon_pay, totals, int_loan_rat,
                   int_7yr_tot_rat, out_prin_7yr, written>>

(* int_7yr_tot_rat = int_7yr / tot_int * 100 *)
MainInt7yrRat ==
    /\ pc = "int_7yr_tot_rat"
    /\ LET quot == TrueDiv(int_7yr, tot_int)
       IN  IF quot.exc # "none"
           THEN /\ exc' = quot.exc
                /\ pc' = "raised"
                /\ UNCHANGED int_7yr_tot_rat
           ELSE /\ int_7yr_tot_rat' = Mul(quot.val, FromInt(100))
                /\ pc' = "out_prin_7yr"
                /\ UNCHANGED exc
    /\ UNCHANGED <<entry, out_prin, months, int_rate, ret, loan_amt, years, calls,
                   hist, inputs, derived, mon_pay, totals, int_loan_rat,
                   int_7yr, out_prin_7yr, written>>

(* outstanding principal after 7 years, then write_excel *)
MainOutPrin7yr ==
    /\ pc = "out_prin_7yr"
    /\ LET bal == WindowBalance(out_prin_h)
       IN  IF bal.exc # "none"
           THEN /\ exc' = bal.exc
                /\ pc' = "raised"
                /\ UNCHANGED <<out_prin_7yr, written>>
           ELSE /\ out_prin_7yr' = bal.val
                /\ written' = TRUE
                /\ pc' = "done"
                /\ UNCHANGED exc
    /\ UNCHANGED <<entry, out_prin, months, int_rate, ret, loan_amt, years, calls,
                   hist, inputs, derived, mon_pay, totals, int_loan_rat,
                   int_7yr, int_7yr_tot_rat>>

Next ==
    \/ MonPay
    \/ ScheduleStart
    \/ ScheduleIter
    \/ ScheduleReturn
    \/ MainInputs
    \/ MainMonPay
    \/ MainTotals
    \/ MainIntLoanRat
    \/ MainInt7yr
    \/ MainInt7yrRat
    \/ MainOutPrin7yr

Spec == Init /\ [][Next]_vars

(***************************************************************************)
(* Vocabulary of the properties.                                           *)
(***************************************************************************)
InSchedule == entry \in {"calc_schedule", "main"} /\ pc \notin {"main", "call"}

(* calc_schedule ended by the exception of a call of calc_mon_pay *)
ScheduleRaised == InSchedule /\ pc = "raised" /\ ret.exc # "none"

(* calc_schedule returned its five lists *)
ScheduleReturned == InSchedule /\ pc # "loop" /\ ~ScheduleRaised

ValidTerms == Leq(Zero, loan_amt) /\ Leq(Zero, int_rate) /\ years >= 1

NPeriods == Len(out_prin_h)

(* the balance before period i *)
BalanceBefore(i) == IF i = 1 THEN loan_amt ELSE out_prin_h[i - 1]

Charges == Add(FromInt(mon_hoa), Add(mon_home_ins, mon_prop_tax))

(***************************************************************************)
(* C1: with int_rate = 0, out_prin >= 0 and months >= 1, calc_mon_pay      *)
(* returns payment = out_prin / months and interest = 0, and calc_schedule *)
(* returns a schedule whose every interest is 0 and every payment is       *)
(* loan_amt / (years * 12).  The code raises ZeroDivisionError instead.    *)
(***************************************************************************)
C1_ZeroRate ==
    /\ (entry = "calc_mon_pay" /\ pc # "pay" /\ IsZero(int_rate)
            /\ Leq(Zero, out_prin) /\ months >= 1)
        => /\ exc = "none"
           /\ ret.payment = Div(out_prin, FromInt(months))
           /\ ret.interest = Zero
    /\ (entry = "calc_schedule" /\ pc \in {"done", "raised"} /\ IsZero(int_rate)
            /\ Leq(Zero, loan_amt) /\ years >= 1)
        => /\ pc = "done"
           /\ \A i \in 1 .. Len(pay_h) :
                /\ int_h[i] = Zero
                /\ pay_h[i] = Div(loan_amt, FromInt(years * 12))

(***************************************************************************)
(* C2: a call of calc_mon_pay with months < 1, out_prin < 0 or             *)
(* int_rate < 0 ends in an error and returns no triple.  The code checks   *)
(* nothing and returns a triple for most such arguments.                   *)
(***************************************************************************)
C2_RejectsInvalidArguments ==
    (entry = "calc_mon_pay" /\ pc # "pay"
        /\ (months < 1 \/ Less(out_prin, Zero) \/ Less(int_rate, Zero)))
    => /\ pc = "raised"
       /\ ret.payment = NoVal /\ ret.interest = NoVal /\ ret.principal = NoVal

(***************************************************************************)
(* C3: calc_schedule with loan_amt < 0, int_rate < 0 or years <= 0 ends in *)
(* an error raised no later than the first call of calc_mon_pay, with      *)
(* nothing appended to a history list; it never returns a schedule.  The   *)
(* code returns a schedule, possibly empty, for such terms.                *)
(***************************************************************************)
C3_RejectsInvalidTerms ==
    (entry = "calc_schedule" /\ pc \in {"done", "raised"}
        /\ (Less(loan_amt, Zero) \/ Less(int_rate, Zero) \/ years <= 0))
    => /\ pc = "raised"
       /\ Len(calls) <= 1
       /\ pay_h = <<>> /\ int_h = <<>> /\ prin_h = <<>>
       /\ month_h = <<>> /\ out_prin_h = <<>>

(***************************************************************************)
(* C4.  The schedule main got back has fewer than 7*12 periods.            *)
(***************************************************************************)
ShortSchedule == entry = "main" /\ ScheduleReturned /\ NPeriods < SevenYears

(* C4 as claimed: from a schedule of fewer than 84 periods no window       *)
(* interest, window-to-total ratio or window-end balance is ever computed. *)
C4_NoWindowAggregate ==
    ShortSchedule =>
        int_7yr = NoVal /\ int_7yr_tot_rat = NoVal /\ out_prin_7yr = NoVal

(* C4 as amended: from a schedule of fewer than 84 periods the summary     *)
(* pass never completes: out_prin_7yr is never computed and nothing is     *)
(* written, and once the window interest and ratio are computed the pass   *)
(* ends in the IndexError of out_prin_h[7*12-1]; the window interest that  *)
(* was computed before is the sum over all the periods there are.          *)
C4_WindowFailsAtBalance ==
    ShortSchedule =>
        /\ out_prin_7yr = NoVal /\ ~written /\ pc # "done"
        /\ int_7yr # NoVal => int_7yr = Sum(int_h)
        /\ (int_7yr_tot_rat # NoVal /\ pc # "out_prin_7yr")
             => (pc = "raised" /\ exc = "IndexError")

C4_Witness ==
    /\ ShortSchedule /\ NPeriods = 12
    /\ pc = "raised" /\ exc = "IndexError"
    /\ int_7yr = Sum(int_h) /\ int_7yr_tot_rat = FromInt(100)

(***************************************************************************)
(* C5 as claimed: tot_pay is the sum of the payments of the produced       *)
(* periods plus the fixed monthly charges over those same periods.         *)
(***************************************************************************)
C5_TotalIsSumOfPeriods ==
    (entry = "main" /\ tot_pay # NoVal)
    => tot_pay = Add(Sum(pay_h), Mul(FromInt(Len(pay_h)), Charges))

(* C5 as amended: tot_pay is the down payment plus years*12 times the      *)
(* first period's payment and fixed monthly charges.                       *)
C5_TotalIsDownPlusNominalTerm ==
    (entry = "main" /\ tot_pay # NoVal)
    => tot_pay = Add(down_pay, Mul(FromInt(years * 12), Add(pay_h[1], Charges)))

C5_Witness ==
    /\ entry = "main" /\ tot_pay # NoVal
    /\ Len(pay_h) = years * 12
    /\ Less(Zero, down_pay) /\ Less(Zero, loan_amt) /\ mon_hoa > 0

(***************************************************************************)
(* C6: the first recorded balance is loan_amt minus the first principal,   *)
(* every later one is the previous balance minus that period's principal,  *)
(* and the balance passed to calc_mon_pay in period i is the balance       *)
(* recorded for period i-1 (loan_amt for the first).                       *)
(***************************************************************************)
C6_BalanceRecurrence ==
    InSchedule =>
        /\ \A i \in 1 .. NPeriods :
             out_prin_h[i] = Sub(BalanceBefore(i), prin_h[i])
        /\ \A i \in 1 .. Len(calls) : calls[i].out_prin = BalanceBefore(i)

C6_Witness ==
    /\ entry = "calc_schedule" /\ pc = "done" /\ ValidTerms
    /\ NPeriods = years * 12
    /\ Less(Zero, prin_h[1]) /\ Less(prin_h[1], prin_h[NPeriods])

(***************************************************************************)
(* C7: for valid terms the returned schedule has at most years*12 periods, *)
(* and exactly years*12 unless a balance recorded before the last period   *)
(* is <= 0.                                                                *)
(***************************************************************************)
C7_ScheduleLength ==
    (ScheduleReturned /\ ValidTerms) =>
        /\ Len(pay_h) = NPeriods /\ Len(int_h) = NPeriods
        /\ Len(prin_h) = NPeriods /\ Len(month_h) = NPeriods
        /\ NPeriods <= years * 12
        /\ \/ NPeriods = years * 12
           \/ \E i \in 1 .. NPeriods : i < years * 12 /\ Leq(out_prin_h[i], Zero)

C7_Witness ==
    /\ entry = "calc_schedule" /\ pc = "done" /\ ValidTerms
    /\ NPeriods = 1 /\ NPeriods < years * 12
    /\ Leq(out_prin_h[1], Zero)

(***************************************************************************)
(* C8: for valid terms the recorded balances never increase, the first     *)
(* being at most loan_amt: every principal component is >= 0.              *)
(***************************************************************************)
C8_MonotoneBalance ==
    (InSchedule /\ ValidTerms) =>
        \A i \in 1 .. NPeriods :
            /\ Leq(out_prin_h[i], BalanceBefore(i))
            /\ Leq(Zero, prin_h[i])

C8_Witness ==
    /\ InSchedule /\ ValidTerms /\ NPeriods >= 2
    /\ Less(out_prin_h[1], loan_amt)
    /\ Less(out_prin_h[2], out_prin_h[1])

(***************************************************************************)
(* C9: the period in which the balance first is <= 0 is appended to all    *)
(* five lists and is the last one: every recorded balance but the last is  *)
(* > 0, the loop goes on only from a balance > 0, and calc_mon_pay is      *)
(* never called with a balance <= 0 after the first period.                *)
(***************************************************************************)
C9_StopsAtPaidOff ==
    InSchedule =>
        /\ Len(pay_h) = NPeriods /\ Len(int_h) = NPeriods
        /\ Len(prin_h) = NPeriods /\ Len(month_h) = NPeriods
        /\ \A i \in 1 .. NPeriods - 1 : Less(Zero, out_prin_h[i])
        /\ (pc = "loop" /\ NPeriods > 0) => Less(Zero, out_prin_h[NPeriods])
        /\ \A j \in 2 .. Len(calls) : Less(Zero, calls[j].out_prin)

C9_Witness ==
    /\ entry = "calc_schedule" /\ pc = "done" /\ years >= 1
    /\ NPeriods >= 1 /\ NPeriods < years * 12
    /\ Len(calls) = NPeriods /\ month_h[NPeriods] = NPeriods
    /\ Leq(out_prin_h[NPeriods], Zero)

(***************************************************************************)
(* C10: the call of calc_mon_pay for period p = 1, 2, ... gets             *)
(* months = years*12 - p + 1: years*12 in the first call, one less in each *)
(* following one, never less than 1, and 1 in period years*12; month_h     *)
(* records the periods 1..n without gaps.                                  *)
(***************************************************************************)
C10_PeriodsRemaining ==
    InSchedule =>
        /\ \A p \in 1 .. Len(calls) :
             /\ calls[p].months = years * 12 - p + 1
             /\ calls[p].months >= 1
             /\ p > 1 => calls[p].months = calls[p - 1].months - 1
        /\ \A i \in 1 .. Len(month_h) : month_h[i] = i
        /\ Len(calls) \in {Len(month_h), Len(month_h) + 1}

C10_Witness ==
    /\ InSchedule /\ years >= 1
    /\ Len(calls) = years * 12 /\ Len(month_h) = years * 12
    /\ calls[1].months = years * 12
    /\ calls[years * 12].months = 1

=============================================================================
